---- MODULE Spec2Model ----
(***************************************************************************)
(* Model of the SegmentedButton / SegmentedButtonItem components of        *)
(* src/src/stories/segmented-button.stories.tsx (component code at lines   *)
(* 397-571, the ControlledState story at lines 247-276).                   *)
(*                                                                         *)
(* A group is mounted by an owner that passes props (value, defaultValue,  *)
(* onValueChange, disabled) and children (the items).  Every event handler *)
(* runs to completion and is followed by React's re-render, which is part  *)
(* of the action: the variable `rendered` holds the output of the last     *)
(* render of every item.  The style props (variant, size, className) do    *)
(* not take part in any state change and are left out.                     *)
(***************************************************************************)
EXTENDS Integers, Sequences, FiniteSets, TLC

\* ---- bounds ----------------------------------------------------------
MaxItems == 2
MaxNotes == 2

\* Identifiers the segments are drawn from (Default story, lines 87-89).
Ids == {"small", "medium", "large"}
\* Values an owner may pass as value / defaultValue: an identifier or the
\* empty string, which is defaultValue's default (line 478).
Texts == Ids \cup {""}

\* An optional prop or context: Undefined, or Some(x).
Undefined == <<>>
Some(x) == <<x>>

\* Props of one SegmentedButtonItem: value and disabled (lines 526-535).
\* An absent disabled flag is falsy and is modelled as FALSE.
ItemProps == [value : Ids, disabled : BOOLEAN]
ItemLists == UNION {[1..n -> ItemProps] : n \in 1..MaxItems}

\* The functions the owners of the stories pass as onValueChange: none
\* (Default story), a function that only observes the call, or the state
\* setter of the ControlledState story (lines 250-257).
Owners == {"absent", "log", "setSelected"}

VARIABLES
    items,              \* children of the group: sequence of ItemProps
    disabled,           \* the group's disabled prop
    hasProvider,        \* are the items rendered inside a SegmentedButton
    value,              \* the value prop (controlledValue): Undefined or Some(text)
    onValueChange,      \* which function the owner passes as onValueChange
    uncontrolledValue,  \* the group's React state (line 487)
    notified,           \* the arguments of the calls made to onValueChange
    rendered,           \* output of the last render of every item
    event,              \* the operation performed last
    twinValue           \* state of an uncontrolled twin given the same clicks

vars == <<items, disabled, hasProvider, value, onValueChange,
          uncontrolledValue, notified, rendered, event, twinValue>>

\* ---- SegmentedButton (lines 469-522) -----------------------------------

\* line 490
isControlled(controlledValue) == controlledValue # Undefined

\* line 491
selectedValue(controlledValue, local) ==
    IF isControlled(controlledValue) THEN controlledValue[1] ELSE local

\* A setter that is not guarded by the controlled check.
setUncontrolledValue_Unguarded(controlledValue, local, newValue) == newValue

\* A setter whose guard is inverted.
setUncontrolledValue_Inverted(controlledValue, local, newValue) ==
    IF isControlled(controlledValue) THEN newValue ELSE local

\* lines 494-496: the state after handleValueChange's conditional setter
setUncontrolledValue(controlledValue, local, newValue) ==
    IF ~isControlled(controlledValue) THEN newValue ELSE local

\* A notifier call that is skipped when the value repeats the last call.
CallOnValueChange_Dedupe(owner, calls, newValue) ==
    IF owner = "absent" \/ (calls # <<>> /\ calls[Len(calls)] = newValue)
    THEN calls ELSE Append(calls, newValue)

\* A notifier that is called a second time for the same change.
CallOnValueChange_Twice(owner, calls, newValue) ==
    IF owner = "absent" THEN calls ELSE Append(Append(calls, newValue), newValue)

\* line 497, onValueChange?.(newValue): the calls the notifier has received
CallOnValueChange(owner, calls, newValue) ==
    IF owner = "absent" THEN calls ELSE Append(calls, newValue)

\* An owner that never feeds the notification back into the value prop.
OwnerValue_Stale(owner, controlledValue, newValue) == controlledValue

\* lines 250-257: what the owner passes as value at the re-render that
\* follows the call; the ControlledState story passes the identifier it
\* was notified of, the other owners keep their value prop
OwnerValue(owner, controlledValue, newValue) ==
    IF owner = "setSelected" THEN Some(newValue) ELSE controlledValue

\* lines 501-508: the context value the Provider hands to the items
\* (onValueChange is handleValueChange below; variant is style only)
ProviderValue(controlledValue, local, groupDisabled) ==
    Some([selectedValue |-> selectedValue(controlledValue, local),
          disabled |-> groupDisabled])

\* ---- SegmentedButtonItem (lines 532-569) -------------------------------

\* A hook that falls back to an empty context instead of throwing.
useSegmentedButtonContext_Fallback(context) ==
    [threw |-> FALSE,
     context |-> IF context = Undefined
                 THEN [selectedValue |-> "", disabled |-> FALSE]
                 ELSE context[1]]

\* lines 450-458: throws when no Provider is above the item
useSegmentedButtonContext(context) ==
    IF context = Undefined
    THEN [threw |-> TRUE]
    ELSE [threw |-> FALSE, context |-> context[1]]

\* A disabled test that forgets the group's flag.
isDisabled_OwnOnly(itemDisabled, groupDisabled) == itemDisabled

\* line 539
isDisabled(itemDisabled, groupDisabled) == itemDisabled \/ groupDisabled

\* A selected test that treats an empty selection as matching.
isSelected_EmptyMatches(selected, itemValue) ==
    selected = itemValue \/ selected = ""

\* line 538
isSelected(selected, itemValue) == selected = itemValue

\* lines 535-568: the render of one item under a context
SegmentedButtonItem(props, context) ==
    LET c == useSegmentedButtonContext(context) IN
    IF c.threw
    THEN [threw |-> TRUE]
    ELSE [threw |-> FALSE,
          ariaChecked |-> isSelected(c.context.selectedValue, props.value),
          dataState |-> IF isSelected(c.context.selectedValue, props.value)
                        THEN "active" ELSE "inactive",
          disabled |-> isDisabled(props.disabled, c.context.disabled)]

\* The render of the whole tree: every item under the Provider's value, or
\* under the context's default (undefined, lines 446-448) without a group.
Render(its, provider, controlledValue, local, groupDisabled) ==
    LET context == IF provider
                   THEN ProviderValue(controlledValue, local, groupDisabled)
                   ELSE Undefined
    IN [i \in DOMAIN its |-> SegmentedButtonItem(its[i], context)]

\* ---- state ---------------------------------------------------------------

Selected == selectedValue(value, uncontrolledValue)

Init ==
    /\ items \in ItemLists
    /\ hasProvider \in BOOLEAN
    /\ onValueChange \in (IF hasProvider THEN Owners ELSE {"absent"})
    /\ disabled \in (IF hasProvider THEN BOOLEAN ELSE {FALSE})
    /\ value \in (IF ~hasProvider THEN {Undefined}
                  ELSE IF onValueChange = "setSelected"
                       THEN {Some(t) : t \in Texts}
                       ELSE {Undefined} \cup {Some(t) : t \in Texts})
    \* line 487: useState(defaultValue); the ControlledState story passes no
    \* defaultValue, so it is "" (line 478)
    /\ uncontrolledValue \in (IF hasProvider /\ onValueChange # "setSelected"
                              THEN Texts ELSE {""})
    /\ notified = <<>>
    /\ twinValue = Selected
    /\ event = [op |-> "mount", idx |-> 0]
    /\ rendered = Render(items, hasProvider, value, uncontrolledValue, disabled)

\* lines 493-498, followed by the re-render
handleValueChange(newValue) ==
    /\ uncontrolledValue' = setUncontrolledValue(value, uncontrolledValue, newValue)
    /\ notified' = CallOnValueChange(onValueChange, notified, newValue)
    /\ value' = OwnerValue(onValueChange, value, newValue)

\* lines 541-545: the click handler of item i.  A group that failed to
\* render has no buttons to click.
handleClick(i) ==
    IF ~isDisabled(items[i].disabled, disabled)
    THEN handleValueChange(items[i].value)
    ELSE UNCHANGED <<uncontrolledValue, notified, value>>

\* The twin: the same items in an uncontrolled group without notifier.
TwinClick(i) ==
    IF ~isDisabled(items[i].disabled, disabled)
    THEN setUncontrolledValue(Undefined, twinValue, items[i].value)
    ELSE twinValue

Click(i) ==
    /\ hasProvider
    /\ Len(notified) < MaxNotes
    /\ handleClick(i)
    /\ twinValue' = TwinClick(i)
    /\ event' = [op |-> "click", idx |-> i]
    /\ rendered' = Render(items, hasProvider, value', uncontrolledValue', disabled)
    /\ UNCHANGED <<items, disabled, hasProvider, onValueChange>>

\* The owner re-renders the group with another value prop, or without one.
\* (The owner of the ControlledState story only ever passes its own state.)
OwnerSetValue(v) ==
    /\ hasProvider
    /\ onValueChange # "setSelected"
    /\ v # value
    /\ value' = v
    /\ event' = [op |-> "props", idx |-> 0]
    /\ rendered' = Render(items, hasProvider, value', uncontrolledValue, disabled)
    /\ UNCHANGED <<items, disabled, hasProvider, onValueChange,
                   uncontrolledValue, notified, twinValue>>

Next ==
    \/ \E i \in DOMAIN items : Click(i)
    \/ \E v \in {Undefined} \cup {Some(t) : t \in Texts} : OwnerSetValue(v)

Spec == Init /\ [][Next]_vars

\* ---- properties ----------------------------------------------------------

\* Helpers of the properties: the item the last click was on, and the set
\* of items the last render reports active.
Clicked == items[event.idx]
ActiveItems == {i \in DOMAIN rendered :
                   ~rendered[i].threw /\ rendered[i].dataState = "active"}
\* "effectively disabled" as the claims state it: own flag or group flag
EffectivelyDisabled(i) == items[i].disabled \/ disabled
ClickedEnabled == event.op = "click" /\ ~EffectivelyDisabled(event.idx)
ClickedEnabledNext == event'.op = "click" /\ ~EffectivelyDisabled(event'.idx)

\* C1: for every group and after any sequence of activations, at most one
\* rendered segment reports active.  (Fails: two segments given the same
\* identifier are both active when that identifier is selected.)
C1_AtMostOneActive == Cardinality(ActiveItems) <= 1

\* C2: in an uncontrolled group, activating a segment that is not
\* effectively disabled makes the selected value that segment's identifier,
\* and that segment is reported active by the render that follows.
C2_UncontrolledSelect ==
    (ClickedEnabled /\ value = Undefined) =>
        /\ Selected = Clicked.value
        /\ rendered[event.idx].dataState = "active"
        /\ rendered[event.idx].ariaChecked

C2_Witness ==
    /\ ClickedEnabled /\ value = Undefined
    /\ Len(items) = 2 /\ items[1].value = "medium" /\ items[2].value = "large"
    /\ event.idx = 2 /\ Selected = "large"
    /\ rendered[1].dataState = "inactive"

\* C3 as stated: in a controlled group with a notifier, activating an enabled
\* segment leaves the local value and the displayed active segments unchanged
\* and calls the notifier with the segment's identifier.
C3_Original ==
    [][(ClickedEnabledNext /\ isControlled(value) /\ onValueChange # "absent") =>
          /\ uncontrolledValue' = uncontrolledValue
          /\ rendered' = rendered
          /\ notified' = Append(notified, items[event'.idx].value)]_vars

\* C3 amended: in a controlled group with a notifier, activating an enabled
\* segment leaves the local value unchanged and calls the notifier once with
\* the segment's identifier; the displayed active segments are unchanged when
\* the owner keeps its value prop, which every owner but the ControlledState
\* story's does, and show the activated identifier under that story's owner.
C3_ControlledClick ==
    [][(ClickedEnabledNext /\ isControlled(value) /\ onValueChange # "absent") =>
          /\ uncontrolledValue' = uncontrolledValue
          /\ notified' = Append(notified, items[event'.idx].value)
          /\ (value' = value => rendered' = rendered /\ Selected' = Selected)
          /\ (onValueChange # "setSelected" => value' = value)
          /\ (onValueChange = "setSelected" => Selected' = items[event'.idx].value)]_vars

C3_Witness ==
    /\ ClickedEnabled /\ isControlled(value) /\ onValueChange = "log"
    /\ notified # <<>> /\ notified[Len(notified)] = Clicked.value
    /\ Selected # Clicked.value
    /\ rendered[event.idx].dataState = "inactive"

\* C4: activating a segment whose own disabled flag is set, or any segment
\* of a disabled group, changes nothing: the selected value, the local value
\* and the value prop stay and the notifier is not called.
C4_DisabledNoChange ==
    [][(event'.op = "click" /\ EffectivelyDisabled(event'.idx)) =>
          /\ uncontrolledValue' = uncontrolledValue
          /\ value' = value
          /\ Selected' = Selected
          /\ notified' = notified
          /\ rendered' = rendered]_vars

C4_Witness ==
    /\ event.op = "click" /\ ~Clicked.disabled /\ disabled
    /\ onValueChange = "log" /\ notified = <<>>
    /\ Selected # Clicked.value

\* C5: an item rendered outside a group fails with the usage error, and an
\* item rendered inside a group never does.
C5_UsageError == \A i \in DOMAIN rendered : rendered[i].threw = ~hasProvider

C5_Witness == ~hasProvider /\ rendered[1].threw

\* C6: every activation of an enabled segment calls the notifier exactly
\* once with the segment's identifier when a notifier is supplied, in
\* controlled and uncontrolled groups alike; without a notifier the
\* activation completes, setting the local value of an uncontrolled group.
C6_Forwarded ==
    [][ClickedEnabledNext =>
          /\ (onValueChange # "absent" =>
                 notified' = Append(notified, items[event'.idx].value))
          /\ (onValueChange = "absent" =>
                 /\ notified' = notified
                 /\ (value = Undefined =>
                        uncontrolledValue' = items[event'.idx].value))]_vars

C6_Witness ==
    /\ ClickedEnabled /\ onValueChange = "log" /\ value = Undefined
    /\ Len(notified) = 2 /\ notified[2] = Clicked.value

\* C7: when the selected value matches no segment's identifier, as in an
\* uncontrolled group mounted without default value, no segment is reported
\* active and every segment renders.
C7_UnmatchedNoneActive ==
    (hasProvider /\ \A i \in DOMAIN items : items[i].value # Selected) =>
        \A i \in DOMAIN rendered :
            /\ ~rendered[i].threw
            /\ rendered[i].dataState = "inactive"
            /\ ~rendered[i].ariaChecked

C7_Witness ==
    /\ hasProvider /\ event.op = "mount"
    /\ value = Undefined /\ uncontrolledValue = ""
    /\ ActiveItems = {}

\* C8: a controlled group whose owner sets the value prop to every
\* identifier it is notified of shows the same segments active as an
\* uncontrolled group started with the same value and given the same
\* activations, and the last activated enabled segment is active.
C8_StoryEqualsUncontrolled ==
    onValueChange = "setSelected" =>
        /\ Selected = twinValue
        /\ rendered = Render(items, TRUE, Undefined, twinValue, disabled)
        /\ (ClickedEnabled => Selected = Clicked.value
                              /\ rendered[event.idx].dataState = "active")

C8_Witness ==
    /\ onValueChange = "setSelected" /\ ClickedEnabled
    /\ Len(notified) = 2 /\ notified[1] # notified[2]
    /\ Selected = notified[2] /\ twinValue = notified[2]

\* C9: the local value is written only by an activation of an enabled
\* segment made while no value prop is supplied, and when a supplied value
\* prop is withdrawn the selected value is the local value held before.
C9_LocalValueFrame ==
    [][/\ (uncontrolledValue' # uncontrolledValue =>
              /\ ClickedEnabledNext
              /\ value = Undefined
              /\ uncontrolledValue' = items[event'.idx].value)
       /\ ((event'.op = "props" /\ isControlled(value) /\ value' = Undefined) =>
              /\ Selected' = uncontrolledValue
              /\ rendered' = Render(items, TRUE, Undefined, uncontrolledValue,
                                    disabled))]_vars

\* A value prop was withdrawn after a controlled activation was notified:
\* the selection is the local value, not the identifier notified last.
C9_Witness ==
    /\ event.op = "props" /\ value = Undefined
    /\ notified # <<>> /\ notified[Len(notified)] # uncontrolledValue
    /\ Selected = uncontrolledValue

\* C10: in an uncontrolled group, activating the enabled segment that is
\* already selected leaves the selected value unchanged, and the notifier
\* is still called for that activation.
C10_IdempotentSelection ==
    [][(ClickedEnabledNext /\ value = Undefined
        /\ Selected = items[event'.idx].value) =>
          /\ Selected' = Selected
          /\ uncontrolledValue' = uncontrolledValue
          /\ (onValueChange # "absent" =>
                 notified' = Append(notified, items[event'.idx].value))]_vars

C10_Witness ==
    /\ ClickedEnabled /\ value = Undefined /\ onValueChange = "log"
    /\ Len(notified) = 2 /\ notified[1] = notified[2]
    /\ Selected = notified[2]

====
